---- MODULE Spec2Model ----
(***************************************************************************)
(* hesim utilities: the row reductions of src/utils.cpp and the helpers of *)
(* inst/include/hesim/utils.h (list_to_vec, max_element_pos, unique,       *)
(* add_constant).                                                          *)
(*                                                                         *)
(* Numbers.  A double is represented by the integer count of halves it     *)
(* holds (0.5 is 1, 1.0 is 2, -1.5 is -3); halves are exact in binary      *)
(* floating point, so sums and comparisons of the modelled values are the  *)
(* IEEE ones.  An int is represented by itself.  NaN and infinities are    *)
(* not in the modelled value sets.                                         *)
(*                                                                         *)
(* Calls.  The code is synchronous and single threaded.  The host holds    *)
(* one argument at a time (a matrix, a host list or a std::vector), calls  *)
(* the functions on it any number of times, drops it and builds the next.  *)
(***************************************************************************)
EXTENDS Integers, Sequences, FiniteSets

VARIABLES
  held,          \* what the host holds: "none", "matrix", "list" or "vector"
  calls,         \* number of calls made on the held argument (saturates at MaxCalls)
  threw,         \* whether a call made on the held argument ended in an exception
  x,             \* the host's matrix, the argument of C_rowmax / C_rowmax_index
  have,          \* which of rowmax, rowmax_index have been returned for x
  rowmax,        \* value returned by C_rowmax
  rowmax_index,  \* value returned by C_rowmax_index
  l,             \* the host's list, the Rcpp::List argument of list_to_vec
  T1,            \* list_to_vec: the container type instantiated
  n,             \* list_to_vec: int n = l.size()
  i,             \* list_to_vec: loop index
  v,             \* list_to_vec: the local container T1 v
  pc,            \* list_to_vec: "idle", "loop", "done" (returned), "error" (threw)
  ret,           \* list_to_vec: the returned container (meaningful iff pc = "done")
  T,             \* element type of the host's std::vector<T>: "int" or "double"
  vec,           \* the host's std::vector<T>
  op,            \* the last helper called on vec, "none" if none yet
  vec_in,        \* vec as it was when that helper was called
  value,         \* add_constant: the double added by that call (0 otherwise)
  pos            \* max_element_pos: the position that call returned (0 otherwise)

matvars  == <<x, have, rowmax, rowmax_index>>
listvars == <<l, T1, n, i, v, pc, ret>>
vecvars  == <<T, vec, op, vec_in, value, pos>>

vars == <<held, calls, threw, matvars, listvars, vecvars>>

----------------------------------------------------------------------------
(* Bounds of the model *)

MaxElems == 6      \* a modelled matrix holds at most this many elements
MaxVecLen == 3     \* a modelled std::vector holds at most this many elements
MaxNodes == 4      \* a modelled host list holds at most this many objects, nested ones counted
MaxCalls == 2      \* the call counter saturates here

MaxAbs == 3        \* the elements of a modelled std::vector stay within -MaxAbs..MaxAbs

\* the doubles of the modelled matrices, in halves: -0.5, 0.0, 0.5
Doubles == (-1)..1
\* the values passed to add_constant, in halves: -1.0 .. 1.0
Values == (-2)..2

\* the double whose value is the integer k
D(k) == k + k

Min(a, b) == IF a < b THEN a ELSE b

----------------------------------------------------------------------------
(* arma::mat: n_rows, n_cols and the column-major memory *)

Mat(R, C, m) == [n_rows |-> R, n_cols |-> C, mem |-> m]

\* x(r, c), zero based
At(m, r, c) == m.mem[c * m.n_rows + r + 1]

\* the matrix [[1,5,3],[9,2,2]] of the specification, column by column
Example == Mat(2, 3, <<D(1), D(9), D(5), D(2), D(3), D(2)>>)

Shapes == { s \in (0..MaxElems) \X (1..MaxElems) : s[1] * s[2] <= MaxElems }

Matrices ==
  UNION { { Mat(s[1], s[2], m) : m \in [1..(s[1] * s[2]) -> Doubles] } : s \in Shapes }
  \cup {Example}

EmptyMat == Mat(0, 0, <<>>)

\* arma::max(x, 1): out starts as column 0; every later column replaces the
\* entries it exceeds (col_val > out_mem[row]).
RECURSIVE arma_max_loop(_, _, _)
arma_max_loop(m, col, out) ==
  IF col >= m.n_cols THEN out
  ELSE arma_max_loop(m, col + 1,
         [r \in 1..m.n_rows |->
            IF At(m, r - 1, col) > out[r] THEN At(m, r - 1, col) ELSE out[r]])

arma_max(m) ==
  IF m.n_cols = 0 THEN <<>>
  ELSE arma_max_loop(m, 1, [r \in 1..m.n_rows |-> At(m, r - 1, 0)])

\* arma::index_max(x, 1): out starts at zeros with tmp = column 0; a later
\* column that exceeds tmp replaces tmp and records its (zero-based) number.
RECURSIVE arma_index_max_loop(_, _, _, _)
arma_index_max_loop(m, col, tmp, out) ==
  IF col >= m.n_cols THEN out
  ELSE arma_index_max_loop(m, col + 1,
         [r \in 1..m.n_rows |->
            IF tmp[r] < At(m, r - 1, col) THEN At(m, r - 1, col) ELSE tmp[r]],
         [r \in 1..m.n_rows |->
            IF tmp[r] < At(m, r - 1, col) THEN col ELSE out[r]])

arma_index_max(m) ==
  IF m.n_cols = 0 THEN <<>>
  ELSE arma_index_max_loop(m, 1, [r \in 1..m.n_rows |-> At(m, r - 1, 0)],
                           [r \in 1..m.n_rows |-> 0])

\* mutant: arma::max(x, 0), the maximum of each column
C_rowmax_dim0(m) ==
  IF m.n_rows = 0 THEN <<>>
  ELSE [c \in 1..m.n_cols |->
          CHOOSE val \in { At(m, r, c - 1) : r \in 0..(m.n_rows - 1) } :
             \A r \in 0..(m.n_rows - 1) : At(m, r, c - 1) <= val]

\* arma::colvec C_rowmax(arma::mat x) { return arma::max(x, 1); }
C_rowmax(m) == arma_max(m)

\* mutant: arma::index_max(x, 0), the row of the maximum of each column
C_rowmax_index_dim0(m) ==
  IF m.n_rows = 0 THEN <<>>
  ELSE [c \in 1..m.n_cols |->
          CHOOSE r \in 0..(m.n_rows - 1) :
             /\ \A q \in 0..(m.n_rows - 1) : At(m, q, c - 1) <= At(m, r, c - 1)
             /\ \A q \in 0..(r - 1) : At(m, q, c - 1) < At(m, r, c - 1)]

\* mutant: the column numbers counted from one, as the host counts them
C_rowmax_index_onebased(m) == [r \in 1..m.n_rows |-> arma_index_max(m)[r] + 1]

\* arma::ucolvec C_rowmax_index(arma::mat x) { return arma::index_max(x, 1); }
C_rowmax_index(m) == arma_index_max(m)

----------------------------------------------------------------------------
(* Host objects (SEXP) and Rcpp::as                                         *)
(* A host object is a numeric matrix ("real": dim attribute and data), a    *)
(* character vector ("str": data holds the strings, each an interned id) or *)
(* a generic list ("list": elems).                                          *)

Real(dim, data) == [kind |-> "real", dim |-> dim, data |-> data, elems |-> <<>>]
Str(data)       == [kind |-> "str",  dim |-> <<>>, data |-> data, elems |-> <<>>]
List(elems)     == [kind |-> "list", dim |-> <<>>, data |-> <<>>, elems |-> elems]

Leaves == { Real(<<1, 1>>, <<D(1)>>), Real(<<2, 1>>, <<D(1), D(2)>>),
            Str(<<7>>), Str(<<8, 7>>) }

\* the host objects of nesting depth <= d made of exactly k objects
RECURSIVE ObjsOfSize(_, _), SeqsOfSize(_, _)
ObjsOfSize(d, k) ==
  IF k = 1 THEN Leaves \cup (IF d >= 1 THEN {List(<<>>)} ELSE {})
  ELSE IF d >= 1 THEN { List(s) : s \in SeqsOfSize(d - 1, k - 1) } ELSE {}

\* the sequences of such objects that hold exactly k objects in all
SeqsOfSize(d, k) ==
  IF k = 0 THEN {<<>>}
  ELSE UNION { { <<o>> \o s : o \in ObjsOfSize(d, j), s \in SeqsOfSize(d, k - j) } :
               j \in 1..k }

\* the instantiations of list_to_vec<T1, T2>, and the T2 of each
ContainerTypes == {"vecmats", "vecmats_2d", "vecmats_3d", "vecstrings_2d"}

ElemType(t1) ==
  CASE t1 = "vecmats"       -> "mat"
    [] t1 = "vecmats_2d"    -> "vecmats"
    [] t1 = "vecmats_3d"    -> "vecmats_2d"
    [] t1 = "vecstrings_2d" -> "vecstrings"

\* the host lists: elements nested up to the depth vecmats_3d needs
MaxDepth == 2

HostLists == UNION { SeqsOfSize(MaxDepth, k) : k \in 0..MaxNodes }

Ok(val) == [ok |-> TRUE, val |-> val]
Throw   == [ok |-> FALSE, val |-> <<>>]

\* Rcpp::as<arma::mat>: a numeric matrix gives the arma::mat of its dim and
\* data; anything else throws (not_a_matrix, not_compatible).
as_mat(o) ==
  IF o.kind = "real" /\ Len(o.dim) = 2
  THEN Ok(Mat(o.dim[1], o.dim[2], o.data))
  ELSE Throw

\* Rcpp::as<std::vector<std::string> >: a character vector gives its
\* strings; anything else throws (not_compatible).
as_vecstrings(o) ==
  IF o.kind = "str" THEN Ok(o.data) ELSE Throw

\* list_to_vec<T1, T2>(l) run to its end, and Rcpp::as<T>(object): the
\* result Ok(v), or Throw when an Rcpp::as<T2>(l[i]) threw.
RECURSIVE list_to_vec_loop(_, _, _, _), Rcpp_as(_, _)
list_to_vec_loop(t1, lst, k, vv) ==
  IF k < Len(lst)
  THEN LET e == Rcpp_as(ElemType(t1), lst[k + 1])
       IN  IF e.ok THEN list_to_vec_loop(t1, lst, k + 1, Append(vv, e.val))
           ELSE Throw
  ELSE Ok(vv)

list_to_vec(t1, lst) == list_to_vec_loop(t1, lst, 0, <<>>)

Rcpp_as(t, o) ==
  CASE t = "mat"        -> as_mat(o)
    [] t = "vecstrings" -> as_vecstrings(o)
    [] OTHER            -> IF o.kind = "list" THEN list_to_vec(t, o.elems) ELSE Throw

----------------------------------------------------------------------------
(* std::vector<T> helpers *)

VecTypes == {"int", "double"}

\* ints for T = int, doubles (in halves) for T = double
Elems == (-MaxAbs)..MaxAbs

Vectors == UNION { [1..k -> Elems] : k \in 0..MaxVecLen }

\* std::max_element: largest = first; a later element replaces it when
\* *largest < *it.  Positions are zero based; an empty range gives last.
RECURSIVE max_element_loop(_, _, _)
max_element_loop(s, largest, it) ==
  IF it >= Len(s) THEN largest
  ELSE max_element_loop(s, IF s[largest + 1] < s[it + 1] THEN it ELSE largest, it + 1)

max_element(s) == IF Len(s) = 0 THEN Len(s) ELSE max_element_loop(s, 0, 1)

\* mutant: std::distance(it, last)
max_element_pos_from_last(s) == Len(s) - max_element(s)

\* std::distance(first, std::max_element(first, last)), first = begin
max_element_pos(s) == max_element(s) - 0

\* std::sort, as an insertion sort (the order of equal elements is not
\* observable on the modelled element types)
RECURSIVE insert_sorted(_, _)
insert_sorted(s, e) ==
  IF s = <<>> THEN <<e>>
  ELSE IF e < Head(s) THEN <<e>> \o s
  ELSE <<Head(s)>> \o insert_sorted(Tail(s), e)

RECURSIVE std_sort(_)
std_sort(s) == IF s = <<>> THEN <<>> ELSE insert_sorted(std_sort(Tail(s)), Head(s))

\* std::unique followed by erase of the tail: of each run of equal
\* neighbours the first is kept
RECURSIVE std_unique_erase(_)
std_unique_erase(s) ==
  IF Len(s) <= 1 THEN s
  ELSE IF s[1] = s[2] THEN std_unique_erase(Tail(s))
  ELSE <<s[1]>> \o std_unique_erase(Tail(s))

\* mutant: std::unique without the std::sort before it
unique_unsorted(s) == std_unique_erase(s)

unique(s) == std_unique_erase(std_sort(s))

\* the conversions of an element of std::vector<T> to double and back:
\* int to double is exact, double to int truncates toward zero
ToDouble(t, e) == IF t = "int" THEN D(e) ELSE e

FromDouble(t, d) ==
  IF t = "int" THEN (IF d >= 0 THEN d \div 2 ELSE -((-d) \div 2)) ELSE d

\* std::transform(v.begin(), v.end(), v.begin(), bind2nd(plus<double>(), value)):
\* each element is converted to double, value is added, and the sum is
\* assigned back to an element of type T
add_constant(t, s, val) ==
  [k \in 1..Len(s) |-> FromDouble(t, ToDouble(t, s[k]) + val)]

----------------------------------------------------------------------------
(* The state machine *)

MatFrame0  == x = EmptyMat /\ have = {} /\ rowmax = <<>> /\ rowmax_index = <<>>
ListFrame0 == /\ l = <<>> /\ T1 = "vecmats" /\ n = 0 /\ i = 0 /\ v = <<>>
              /\ pc = "idle" /\ ret = <<>>
VecFrame0  == /\ T = "int" /\ vec = <<>> /\ op = "none" /\ vec_in = <<>>
              /\ value = 0 /\ pos = 0

Init == held = "none" /\ calls = 0 /\ threw = FALSE /\ MatFrame0 /\ ListFrame0 /\ VecFrame0

Count == calls' = Min(calls + 1, MaxCalls)

(* the host *)

HostSetMatrix ==
  /\ held = "none"
  /\ held' = "matrix" /\ x' \in Matrices
  /\ UNCHANGED <<calls, threw, have, rowmax, rowmax_index, listvars, vecvars>>

HostSetList ==
  /\ held = "none"
  /\ held' = "list" /\ l' \in HostLists
  /\ UNCHANGED <<calls, threw, T1, n, i, v, pc, ret, matvars, vecvars>>

HostSetVector ==
  /\ held = "none"
  /\ held' = "vector" /\ T' \in VecTypes /\ vec' \in Vectors
  /\ UNCHANGED <<calls, threw, op, vec_in, value, pos, matvars, listvars>>

\* the host drops its argument and the results it got for it
HostDrop ==
  /\ held # "none" /\ pc # "loop"
  /\ held' = "none"
  /\ x' = EmptyMat /\ have' = {} /\ rowmax' = <<>> /\ rowmax_index' = <<>>
  /\ l' = <<>> /\ T1' = "vecmats" /\ n' = 0 /\ i' = 0 /\ v' = <<>>
  /\ pc' = "idle" /\ ret' = <<>>
  /\ T' = "int" /\ vec' = <<>> /\ op' = "none" /\ vec_in' = <<>>
  /\ value' = 0 /\ pos' = 0
  /\ calls' = 0 /\ threw' = FALSE

(* src/utils.cpp *)

\* arma::mat x is passed by value: the host's matrix is not touched
Call_C_rowmax ==
  /\ held = "matrix"
  /\ rowmax' = C_rowmax(x)
  /\ have' = have \cup {"rowmax"}
  /\ Count
  /\ UNCHANGED <<held, threw, x, rowmax_index, listvars, vecvars>>

Call_C_rowmax_index ==
  /\ held = "matrix"
  /\ rowmax_index' = C_rowmax_index(x)
  /\ have' = have \cup {"rowmax_index"}
  /\ Count
  /\ UNCHANGED <<held, threw, x, rowmax, listvars, vecvars>>

(* detail::list_to_vec<T1, T2> *)

\* mutant: static T1 v, the container of the previous call is kept
Call_list_to_vec_static(t1) ==
  /\ held = "list" /\ pc # "loop"
  /\ T1' = t1
  /\ v' = v /\ n' = Len(l) /\ i' = 0
  /\ pc' = "loop" /\ ret' = <<>>
  /\ Count
  /\ UNCHANGED <<held, threw, l, matvars, vecvars>>

\* T1 v; int n = l.size(); v.reserve(n); int i = 0
Call_list_to_vec(t1) ==
  /\ held = "list" /\ pc # "loop"
  /\ T1' = t1
  /\ v' = <<>> /\ n' = Len(l) /\ i' = 0
  /\ pc' = "loop" /\ ret' = <<>>
  /\ Count
  /\ UNCHANGED <<held, threw, l, matvars, vecvars>>

\* mutant: the element is inserted at the front
list_to_vec_push_front ==
  /\ pc = "loop" /\ i < n
  /\ Rcpp_as(ElemType(T1), l[i + 1]).ok
  /\ v' = <<Rcpp_as(ElemType(T1), l[i + 1]).val>> \o v
  /\ i' = i + 1
  /\ UNCHANGED <<held, threw, calls, l, T1, n, pc, ret, matvars, vecvars>>

\* v.push_back(Rcpp::as<T2>(l[i])); ++i
list_to_vec_push ==
  /\ pc = "loop" /\ i < n
  /\ Rcpp_as(ElemType(T1), l[i + 1]).ok
  /\ v' = Append(v, Rcpp_as(ElemType(T1), l[i + 1]).val)
  /\ i' = i + 1
  /\ UNCHANGED <<held, threw, calls, l, T1, n, pc, ret, matvars, vecvars>>

\* mutant: the exception is caught and the element skipped
list_to_vec_skip ==
  /\ pc = "loop" /\ i < n
  /\ ~Rcpp_as(ElemType(T1), l[i + 1]).ok
  /\ i' = i + 1
  /\ UNCHANGED <<held, threw, calls, l, T1, n, v, pc, ret, matvars, vecvars>>

\* Rcpp::as<T2>(l[i]) throws: the exception leaves list_to_vec, unwinding
\* destroys v and nothing is returned
list_to_vec_throw ==
  /\ pc = "loop" /\ i < n
  /\ ~Rcpp_as(ElemType(T1), l[i + 1]).ok
  /\ pc' = "error"
  /\ v' = <<>>
  /\ threw' = TRUE
  /\ UNCHANGED <<held, calls, l, T1, n, i, ret, matvars, vecvars>>

\* return v; (the storage of the popped frame is not cleared: v keeps its
\* value until the next call constructs it anew)
list_to_vec_return ==
  /\ pc = "loop" /\ ~(i < n)
  /\ ret' = v
  /\ pc' = "done"
  /\ UNCHANGED <<held, threw, calls, l, T1, n, i, v, matvars, vecvars>>

(* the std::vector helpers; unique and add_constant work in place *)

Call_max_element_pos ==
  /\ held = "vector"
  /\ op' = "max_element_pos" /\ vec_in' = vec
  /\ pos' = max_element_pos(vec)
  /\ value' = 0
  /\ Count
  /\ UNCHANGED <<held, threw, T, vec, matvars, listvars>>

Call_unique ==
  /\ held = "vector"
  /\ op' = "unique" /\ vec_in' = vec
  /\ vec' = unique(vec)
  /\ value' = 0 /\ pos' = 0
  /\ Count
  /\ UNCHANGED <<held, threw, T, matvars, listvars>>

\* (the guard keeps the modelled elements within -MaxAbs..MaxAbs)
Call_add_constant(val) ==
  /\ held = "vector"
  /\ \A k \in 1..Len(vec) : add_constant(T, vec, val)[k] \in Elems
  /\ op' = "add_constant" /\ vec_in' = vec /\ value' = val
  /\ vec' = add_constant(T, vec, val)
  /\ pos' = 0
  /\ Count
  /\ UNCHANGED <<held, threw, T, matvars, listvars>>

Next ==
  \/ HostSetMatrix
  \/ HostSetList
  \/ HostSetVector
  \/ HostDrop
  \/ Call_C_rowmax
  \/ Call_C_rowmax_index
  \/ \E t1 \in ContainerTypes : Call_list_to_vec(t1)
  \/ list_to_vec_push
  \/ list_to_vec_throw
  \/ list_to_vec_return
  \/ Call_max_element_pos
  \/ Call_unique
  \/ \E val \in Values : Call_add_constant(val)

Spec == Init /\ [][Next]_vars

----------------------------------------------------------------------------
(* Properties *)

Rows(m) == 0..(m.n_rows - 1)
Cols(m) == 0..(m.n_cols - 1)

\* C1: for a matrix of R rows and C > 0 columns C_rowmax returns R values,
\* and the value of each row is an element of that row that no element of
\* the row exceeds.
Thm_C1 ==
  (held = "matrix" /\ "rowmax" \in have /\ x.n_cols > 0) =>
    /\ Len(rowmax) = x.n_rows
    /\ \A r \in Rows(x) :
         /\ \E c \in Cols(x) : At(x, r, c) = rowmax[r + 1]
         /\ \A c \in Cols(x) : At(x, r, c) <= rowmax[r + 1]

Wit_C1 ==
  /\ held = "matrix" /\ "rowmax" \in have
  /\ x.n_rows = 2 /\ x.n_cols = 3
  /\ rowmax[1] # rowmax[2]
  /\ At(x, 0, 0) < rowmax[1] /\ At(x, 0, 2) < rowmax[1]
  /\ At(x, 1, 2) = rowmax[2] /\ At(x, 1, 1) < rowmax[2]

\* C2: for a matrix of R rows and C > 0 columns C_rowmax_index returns R
\* indices, each a column position in 0..C-1, and the element of row r at
\* the returned index is the value C_rowmax returns for row r.
Thm_C2 ==
  (held = "matrix" /\ "rowmax_index" \in have /\ x.n_cols > 0) =>
    /\ Len(rowmax_index) = x.n_rows
    /\ \A r \in Rows(x) :
         /\ rowmax_index[r + 1] \in Cols(x)
         /\ At(x, r, rowmax_index[r + 1]) = C_rowmax(x)[r + 1]
         /\ "rowmax" \in have => At(x, r, rowmax_index[r + 1]) = rowmax[r + 1]

Wit_C2 ==
  /\ held = "matrix" /\ have = {"rowmax", "rowmax_index"}
  /\ x.n_rows = 3 /\ x.n_cols = 2
  /\ rowmax_index[1] = 1 /\ rowmax_index[2] = 0 /\ rowmax_index[3] = 0
  /\ At(x, 2, 0) = At(x, 2, 1)

\* C3: the indices are zero based: for [[1,5,3],[9,2,2]] C_rowmax returns
\* [5,9] and C_rowmax_index returns [1,0].
Thm_C3 ==
  (held = "matrix" /\ x = Example) =>
    /\ "rowmax" \in have => rowmax = <<D(5), D(9)>>
    /\ "rowmax_index" \in have => rowmax_index = <<1, 0>>

Wit_C3 == held = "matrix" /\ x = Example /\ have = {"rowmax", "rowmax_index"}

\* an object the element type t accepts, told from its shape alone
RECURSIVE Convertible(_, _)
Convertible(t, o) ==
  CASE t = "mat"        -> o.kind = "real" /\ Len(o.dim) = 2
    [] t = "vecstrings" -> o.kind = "str"
    [] OTHER            -> /\ o.kind = "list"
                           /\ \A k \in 1..Len(o.elems) :
                                Convertible(ElemType(t), o.elems[k])

AllConvertible(t1, lst) == \A k \in 1..Len(lst) : Convertible(ElemType(t1), lst[k])

\* out holds the elements of lst, one for one and in order, at every level
RECURSIVE Faithful(_, _, _)
Faithful(t1, lst, out) ==
  /\ Len(out) = Len(lst)
  /\ \A k \in 1..Len(lst) :
       LET t == ElemType(t1) IN
       CASE t = "mat" ->
              /\ out[k].n_rows = lst[k].dim[1] /\ out[k].n_cols = lst[k].dim[2]
              /\ out[k].mem = lst[k].data
         [] t = "vecstrings" -> out[k] = lst[k].data
         [] OTHER -> Faithful(t, lst[k].elems, out[k])

\* C4: on a host list of N convertible elements list_to_vec does not throw
\* and returns a container of N elements whose i-th element is the
\* conversion of l[i], at every nesting level of the nested converters.
Thm_C4 ==
  (held = "list" /\ pc # "idle" /\ AllConvertible(T1, l)) =>
    /\ pc # "error"
    /\ pc = "done" => Faithful(T1, l, ret)

Wit_C4 ==
  /\ held = "list" /\ pc = "done" /\ T1 = "vecmats_3d"
  /\ Len(l) = 2 /\ Len(ret) = 2
  /\ Len(l[1].elems) = 1 /\ Len(l[1].elems[1].elems) = 1
  /\ Len(ret[1]) = 1 /\ Len(ret[1][1]) = 1 /\ Len(ret[2]) = 0

\* the zero-based position of the first element of lst that t1's element
\* type does not accept
FirstBad(t1, lst) ==
  (CHOOSE k \in 1..Len(lst) :
     /\ ~Convertible(ElemType(t1), lst[k])
     /\ \A j \in 1..(k - 1) : Convertible(ElemType(t1), lst[j])) - 1

\* C5: when an element of the host list, at whatever position, is not
\* convertible, list_to_vec never returns: no container comes back, neither
\* a shorter one nor the elements converted before the failure; the loop
\* does not pass the offending element, and a call that threw has returned
\* nothing.
Thm_C5 ==
  /\ (held = "list" /\ pc # "idle" /\ ~AllConvertible(T1, l)) =>
       /\ pc \in {"loop", "error"}
       /\ ret = <<>>
       /\ i <= FirstBad(T1, l)
  /\ pc = "error" => (~AllConvertible(T1, l) /\ ret = <<>> /\ i = FirstBad(T1, l))

Wit_C5 ==
  /\ held = "list" /\ pc = "error" /\ T1 = "vecmats"
  /\ Len(l) = 3 /\ i = 1
  /\ Convertible("mat", l[1]) /\ ~Convertible("mat", l[2]) /\ Convertible("mat", l[3])

\* what a call returns
Stateless ==
  /\ "rowmax" \in have => rowmax = C_rowmax(x)
  /\ "rowmax_index" \in have => rowmax_index = C_rowmax_index(x)
  /\ pc = "done" => list_to_vec(T1, l) = Ok(ret)
  /\ pc = "error" => ~list_to_vec(T1, l).ok

\* C6: C_rowmax, C_rowmax_index and list_to_vec leave the host's matrix and
\* list as they were, and whatever calls came before (failed ones included)
\* a call returns what the first call on that input returns: the outcome of
\* the function run from a fresh frame.
Thm_C6 ==
  [][ /\ (held' = held /\ held \in {"matrix", "list"}) => (x' = x /\ l' = l)
      /\ Stateless' ]_vars

Wit_C6 ==
  /\ held = "list" /\ pc = "done" /\ calls >= 2 /\ threw
  /\ Len(l) >= 2 /\ Len(ret) = Len(l)

\* C7: on a non-empty range max_element_pos returns a position p with
\* 0 <= p < n such that no element of the range is greater than the one at p.
Thm_C7 ==
  (held = "vector" /\ op = "max_element_pos" /\ Len(vec_in) > 0) =>
    /\ pos \in 0..(Len(vec_in) - 1)
    /\ \A k \in 1..Len(vec_in) : ~(vec_in[pos + 1] < vec_in[k])

Wit_C7 ==
  /\ held = "vector" /\ op = "max_element_pos"
  /\ Len(vec_in) = 3 /\ pos = 1 /\ vec_in[1] < vec_in[2] /\ vec_in[3] = vec_in[2]

Range(s) == { s[k] : k \in 1..Len(s) }

StrictlyAscending(s) == \A k \in 1..(Len(s) - 1) : s[k] < s[k + 1]

\* C8: after unique(v) the vector is strictly ascending and holds exactly
\* the distinct values it held before; unique applied again, or to any
\* vector already in that form, changes nothing.
Thm_C8 ==
  (held = "vector" /\ op = "unique") =>
    /\ StrictlyAscending(vec)
    /\ Range(vec) = Range(vec_in)
    /\ unique(vec) = vec
    /\ StrictlyAscending(vec_in) => vec = vec_in

Wit_C8 ==
  /\ held = "vector" /\ op = "unique"
  /\ Len(vec_in) = 3 /\ Len(vec) = 2
  /\ vec_in[1] > vec_in[2] /\ vec_in[3] = vec_in[1]

\* C9: after add_constant(v, value), for vectors of int or of double, v has
\* the length it had and every element is the old element plus value.
Claim_C9 ==
  (held = "vector" /\ op = "add_constant") =>
    /\ Len(vec) = Len(vec_in)
    /\ \A k \in 1..Len(vec) : ToDouble(T, vec[k]) = ToDouble(T, vec_in[k]) + value

====
